---------------------------- MODULE Spec2Model ----------------------------
(***************************************************************************)
(* A state-machine model of the read-reminder desktop utility (src/app.py).*)
(*                                                                         *)
(* The state is the two files the program keeps (data.json and the         *)
(* completed-items markdown log), the wall clock, and, while the process   *)
(* runs, the Tk application: the App object's fields, the Python dict      *)
(* objects that hold Documents (windows keep references to them), the      *)
(* pending Tk `after` callbacks and the windows that are open.             *)
(*                                                                         *)
(* One action models one whole callback: a button command, a window-close  *)
(* protocol handler or a Tk `after` callback, run to completion or to the  *)
(* exception that ends it (Tk reports an exception raised by a callback    *)
(* and keeps the event loop running).                                      *)
(*                                                                         *)
(* The program is taken as run by Python 3.12 or later: line 21 nests a     *)
(* double-quoted string in a double-quoted f-string, which earlier         *)
(* versions refuse to compile.                                             *)
(*                                                                         *)
(* Text is modelled as a sequence of tokens: " " is a blank, every other   *)
(* token is a character or a run of characters that neither starts nor     *)
(* ends with a blank.                                                      *)
(***************************************************************************)
EXTENDS Integers, Sequences, FiniteSets, TLC

VARIABLES
    now,                \* wall clock, seconds
    proc,               \* "off" | "running": whether the process is alive
    launches,           \* how many times the program has been started
    dataFile,           \* DATA_JSON: whether it exists, and its text
    mdFile,             \* COMPLETED_MD: whether it exists, and its lines
    heap,               \* the Document dicts of the process, by object id
    appData,            \* App.data: an object id (0 before it is assigned)
    popup_handle,       \* App.popup_handle: 0 (None) or a window id
    popupWindows,       \* the ReminderPopup windows that exist
    scheduled_popup_id, \* App.scheduled_popup_id: 0 (None) or an after id
    afterQueue,         \* the pending Tk after callbacks
    nextId,             \* source of fresh after ids and window ids
    prompt,             \* the ask_minutes dialog is open
    timer,              \* the TimerWindow
    logWin,             \* the LogWindow
    editors             \* the ReadingListEditor windows, in creation order

vars == << now, proc, launches, dataFile, mdFile, heap, appData,
           popup_handle, popupWindows, scheduled_popup_id, afterQueue, nextId,
           prompt, timer, logWin, editors >>

fileVars == << dataFile, mdFile >>
winVars  == << prompt, timer, logWin, editors >>
schedVars == << popup_handle, popupWindows, scheduled_popup_id, afterQueue, nextId >>

-----------------------------------------------------------------------------
(* Program constants *)

DELAY_AFTER_LOGIN_MIN == 20
SNOOZE_AFTER_CLOSE_MIN == 30
MinMinutes == 1
MaxMinutes == 600
KindValues == {"book", "blog", "article", "paper"}

(* Bounds of the model *)

MaxLaunches == 1        \* program starts
MaxActive == 3          \* the editor's Add is not pressed on a longer list
MaxEditors == 1         \* editor windows open at once
MaxCompleted == 1       \* lines added to the completed log
MaxRow == 2             \* the user clicks and picks among the first rows of a list
MaxIds == 4             \* after ids handed out before the scheduler's driver stops arming
MaxNegative == 12       \* negative page numbers -1 .. -MaxNegative are tried
MaxPage == 120          \* page numbers 0 .. MaxPage are tried
InitNotBefore == 1800   \* the snooze timestamp of a data file found at first start

-----------------------------------------------------------------------------
(* Text *)

Blank == " "
Digits == <<"0", "1", "2", "3", "4", "5", "6", "7", "8", "9">>

\* str.strip(): leading and trailing blanks removed
RECURSIVE LStrip(_)
LStrip(s) == IF s # <<>> /\ Head(s) = Blank THEN LStrip(Tail(s)) ELSE s

RECURSIVE RStrip(_)
RStrip(s) ==
    IF s # <<>> /\ s[Len(s)] = Blank THEN RStrip(SubSeq(s, 1, Len(s) - 1)) ELSE s

Strip(s) == RStrip(LStrip(s))

DigitValue(c) == (CHOOSE i \in 1..10 : Digits[i] = c) - 1
IsDigit(c) == \E i \in 1..10 : Digits[i] = c

RECURSIVE DigitsValue(_)
DigitsValue(s) ==
    IF s = <<>> THEN 0
    ELSE 10 * DigitsValue(SubSeq(s, 1, Len(s) - 1)) + DigitValue(s[Len(s)])

\* int(text): surrounding blanks ignored, an optional sign, then digits only;
\* anything else raises ValueError
ParseInt(text) ==
    LET s == Strip(text)
        signed == s # <<>> /\ Head(s) \in {"-", "+"}
        ds == IF signed THEN Tail(s) ELSE s
    IN  IF ds = <<>> \/ \E i \in 1..Len(ds) : ~IsDigit(ds[i])
        THEN [ok |-> FALSE, value |-> 0]
        ELSE [ok |-> TRUE,
              value |-> IF signed /\ Head(s) = "-" THEN 0 - DigitsValue(ds)
                        ELSE DigitsValue(ds)]

\* str(n)
RECURSIVE NatToText(_)
NatToText(n) ==
    IF n < 10 THEN << Digits[n + 1] >>
    ELSE NatToText(n \div 10) \o << Digits[(n % 10) + 1] >>

IntToText(n) == IF n < 0 THEN <<"-">> \o NatToText(0 - n) ELSE NatToText(n)


-----------------------------------------------------------------------------
(* Python values *)

\* next_popup_not_before is None or a str; a timestamp string is kept by its
\* parts: the ISO date-time (as seconds), the UTC offset text and the final Z
PyNone == [none |-> TRUE, iso |-> 0, offset |-> "", z |-> FALSE]
UtcOffset == "+00:00"

Item(title, last_page, kind) ==
    [title |-> title, last_page |-> last_page, kind |-> kind]

Document(active, not_before) ==
    [active |-> active, next_popup_not_before |-> not_before]

\* A UTC clock that can be read
UtcNowWorks == FALSE

\* Line 7 binds the name `datetime` to the class datetime.datetime, which has
\* neither a `datetime` nor a `UTC` attribute: evaluating
\* datetime.datetime.now(datetime.UTC) raises AttributeError wherever it stands.
UtcNowRaises == TRUE

\* dt.isoformat(timespec="seconds") + "Z" of an aware UTC datetime
IsoFormatZ(t) == [none |-> FALSE, iso |-> t, offset |-> UtcOffset, z |-> TRUE]

\* parse_utc_iso: drops a final Z, then datetime.fromisoformat; the result is
\* an aware datetime exactly when the text carries a UTC offset
parse_utc_iso(s) == [t |-> s.iso, aware |-> s.offset # ""]

\* (dt - utcnow).total_seconds(), the comparison utcnow < dt: subtracting or
\* comparing a naive and an aware datetime raises TypeError
SecondsUntil(dt, t) == [raised |-> ~dt.aware, value |-> dt.t - t]

Max(a, b) == IF a >= b THEN a ELSE b
Min(a, b) == IF a <= b THEN a ELSE b

\* A deletion that drops the last element whatever the position
RemoveLast(s, i) == SubSeq(s, 1, Len(s) - 1)

\* del s[i] (positions from 1)
RemoveAt(s, i) == SubSeq(s, 1, i - 1) \o SubSeq(s, i + 1, Len(s))

-----------------------------------------------------------------------------
(* Storage *)

\* A reading of the file that loses the snooze timestamp
JsonLoadsWithoutSnooze(text) ==
    Document([i \in 1..Len(text.active) |->
                 Item(text.active[i].title,
                      ParseInt(text.active[i].last_page).value,
                      text.active[i].kind)],
             PyNone)

\* json.dumps / json.loads of a Document: numbers are written as digits and
\* read back with int, None is written as null
JsonDumps(doc) ==
    [format |-> "json",
     active |-> [i \in 1..Len(doc.active) |->
                    [title |-> doc.active[i].title,
                     last_page |-> IntToText(doc.active[i].last_page),
                     kind |-> doc.active[i].kind]],
     next_popup_not_before |-> doc.next_popup_not_before]

JsonLoads(text) ==
    Document([i \in 1..Len(text.active) |->
                 Item(text.active[i].title,
                      ParseInt(text.active[i].last_page).value,
                      text.active[i].kind)],
             text.next_popup_not_before)

NoText == [format |-> "", active |-> <<>>, next_popup_not_before |-> PyNone]
GarbageText == [format |-> "garbage", active |-> <<>>, next_popup_not_before |-> PyNone]

NoFile == [exists |-> FALSE, text |-> NoText]
FileOf(text) == [exists |-> TRUE, text |-> text]

NoMd == [exists |-> FALSE, lines |-> <<>>]

SeedDocument ==
    Document(<< Item(<<"Preacher Man">>, 0, "book"),
                Item(<<"Farnam Street">>, 0, "blog"),
                Item(<<"Example Article: Notes on Learning">>, 0, "article") >>,
             PyNone)

EmptyDocument == Document(<<>>, PyNone)

MdHeader ==
    << <<"# 2026 Reading List (Completed)">>,
       <<>>,
       <<"## Completed Items">>,
       <<>>,
       <<"## In Progress">>,
       <<>>,
       <<"- [ ] Preacher Man">>,
       <<>> >>

\* A set-up that writes both files whether or not they exist
ensure_storage_overwrites(df, md) ==
    [dataFile |-> [exists |-> TRUE,
                   text |-> [format |-> "json",
                             active |-> <<>>,
                             next_popup_not_before |-> PyNone]],
     mdFile |-> [exists |-> TRUE, lines |-> MdHeader]]

\* ensure_storage: creates each file only when it is missing. The folder of
\* the completed log (OBSIDIAN_DIR, not created by the program) is taken to
\* exist.
ensure_storage(df, md) ==
    [dataFile |-> IF df.exists THEN df ELSE FileOf(JsonDumps(SeedDocument)),
     mdFile |-> IF md.exists THEN md ELSE [exists |-> TRUE, lines |-> MdHeader]]

\* load_data: the parsed Document; on a file that does not parse, the except
\* branch first builds the backup's name from the current UTC time
load_data(df, md) ==
    LET es == ensure_storage(df, md)
    IN  IF es.dataFile.text.format = "json"
        THEN [raised |-> FALSE, value |-> JsonLoads(es.dataFile.text),
              dataFile |-> es.dataFile, mdFile |-> es.mdFile]
        ELSE IF UtcNowRaises
        THEN [raised |-> TRUE, value |-> EmptyDocument,
              dataFile |-> es.dataFile, mdFile |-> es.mdFile]
        ELSE [raised |-> FALSE, value |-> EmptyDocument,
              dataFile |-> FileOf(JsonDumps(EmptyDocument)),
              mdFile |-> es.mdFile]

\* A save that writes nothing: the file stays as it is
save_data_skipped(doc) == dataFile

\* save_data: the whole file is overwritten
save_data(doc) == FileOf(JsonDumps(doc))

\* datetime.now().strftime('%Y-%m-%d'): the local date, kept as a day number
StrfDate(t) == <<"day">> \o NatToText(t \div 86400)

\* the line's em dash is written "--" here
CompletedLine(title, last_page, kind, t) ==
    <<"- **">> \o title \o <<"** (", kind, ") -- completed at page **">>
    \o IntToText(last_page) \o <<"** on", " ">> \o StrfDate(t)

\* append_completed_md: opening for append creates a missing file
append_completed_md(md, title, last_page, kind, t) ==
    [exists |-> TRUE,
     lines |-> Append(md.lines, CompletedLine(title, last_page, kind, t))]


-----------------------------------------------------------------------------
(* The scheduler: App.scheduled_popup_id and Tk's pending after callbacks *)

Sched == [scheduled_popup_id |-> scheduled_popup_id, afterQueue |-> afterQueue,
          nextId |-> nextId]

NoSched == [scheduled_popup_id |-> 0, afterQueue |-> {}, nextId |-> 0]

AfterCall(id, due, cb) == [id |-> id, due |-> due, cb |-> cb]

\* after_cancel(id): the callback with that id, if still pending, is dropped
after_cancel(queue, id) == {c \in queue : c.id # id}

\* An arm that leaves the previously pending callback in place
schedule_without_cancel(s, seconds, t) ==
    LET id == s.nextId + 1
    IN  [scheduled_popup_id |-> id,
         afterQueue |-> s.afterQueue \cup {AfterCall(id, t + seconds, "show_popup")},
         nextId |-> id]

\* App.schedule_popup_in_seconds at time t
schedule_popup_in_seconds(s, seconds, t) ==
    LET queue == IF s.scheduled_popup_id # 0
                 THEN after_cancel(s.afterQueue, s.scheduled_popup_id)
                 ELSE s.afterQueue
        id == s.nextId + 1
    IN  [scheduled_popup_id |-> id,
         afterQueue |-> queue \cup {AfterCall(id, t + seconds, "show_popup")},
         nextId |-> id]

\* App.snooze_30m on Document doc at time t: the first statement reads the UTC
\* clock; an exception there leaves the Document, the file and the scheduler
\* as they were
snooze_30m(doc, s, t) ==
    IF UtcNowRaises
    THEN [raised |-> TRUE, doc |-> doc, saved |-> FALSE, sched |-> s]
    ELSE [raised |-> FALSE,
          doc |-> [doc EXCEPT !.next_popup_not_before =
                                 IsoFormatZ(t + SNOOZE_AFTER_CLOSE_MIN * 60)],
          saved |-> TRUE,
          sched |-> schedule_popup_in_seconds(s, SNOOZE_AFTER_CLOSE_MIN * 60, t)]

\* The delay App.__init__ arms for, given the loaded Document
FirstDelay(doc, flags, t) ==
    LET not_before == doc.next_popup_not_before
        left == SecondsUntil(parse_utc_iso(not_before), t)
    IN  IF ~not_before.none /\ "--popup-now" \notin flags
           /\ ~UtcNowRaises /\ ~left.raised
        THEN Max(0, left.value)
        ELSE DELAY_AFTER_LOGIN_MIN * 60

-----------------------------------------------------------------------------
(* Windows *)

NoTimer == [exists |-> FALSE, running |-> FALSE, total_seconds |-> 0,
            remaining |-> 0, visible |-> FALSE, toast |-> FALSE]

NoLogWin == [open |-> FALSE, data |-> 0, titles |-> <<>>, choice_var |-> <<>>,
             page_var |-> <<>>]

-----------------------------------------------------------------------------
(* The files the program may find when it is first started *)

TitleA == <<"A">>

HeaderMd == [exists |-> TRUE, lines |-> MdHeader]

InitFiles ==
    { << NoFile, NoMd >>,
      << FileOf(GarbageText), HeaderMd >>,
      << FileOf(JsonDumps(Document(<< Item(TitleA, 3, "book"),
                                      Item(TitleA, 5, "paper") >>, PyNone))),
         NoMd >>,
      << FileOf(JsonDumps(Document(<< Item(<<"B">>, 12, "blog") >>,
                                   IsoFormatZ(InitNotBefore)))),
         HeaderMd >>,
      << FileOf(JsonDumps(EmptyDocument)), HeaderMd >> }


Init ==
    /\ now = 0
    /\ proc = "off"
    /\ launches = 0
    /\ \E files \in InitFiles : dataFile = files[1] /\ mdFile = files[2]
    /\ heap = <<>>
    /\ appData = 0
    /\ popup_handle = 0
    /\ popupWindows = {}
    /\ scheduled_popup_id = 0
    /\ afterQueue = {}
    /\ nextId = 0
    /\ prompt = FALSE
    /\ timer = NoTimer
    /\ logWin = NoLogWin
    /\ editors = <<>>

\* A process that is not running holds nothing
ProcessGone ==
    /\ proc' = "off"
    /\ heap' = <<>>
    /\ appData' = 0
    /\ popup_handle' = 0
    /\ popupWindows' = {}
    /\ scheduled_popup_id' = 0
    /\ afterQueue' = {}
    /\ nextId' = 0
    /\ prompt' = FALSE
    /\ timer' = NoTimer
    /\ logWin' = NoLogWin
    /\ editors' = <<>>

\* A --reset that leaves the Document as it was loaded
reset_kept(doc) == doc

\* main()'s --reset: data["next_popup_not_before"] = None
reset(doc) == [doc EXCEPT !.next_popup_not_before = PyNone]

\* main() with the given flags, through App.__init__: an exception that
\* leaves main ends the process
Launch(flags) ==
    /\ proc = "off"
    /\ launches < MaxLaunches
    /\ launches' = launches + 1
    /\ UNCHANGED now
    /\ LET es == ensure_storage(dataFile, mdFile)
           rl == load_data(es.dataFile, es.mdFile)            \* --reset
           cleared == reset(rl.value)
           df1 == IF "--reset" \in flags
                  THEN (IF rl.raised THEN rl.dataFile ELSE save_data(cleared))
                  ELSE es.dataFile
           ld == load_data(df1, es.mdFile)                    \* App.__init__
           crashed == ("--reset" \in flags /\ rl.raised) \/ ld.raised
       IN  /\ dataFile' = ld.dataFile
           /\ mdFile' = ld.mdFile
           /\ IF crashed
              THEN ProcessGone
              ELSE LET s == schedule_popup_in_seconds(
                                NoSched, FirstDelay(ld.value, flags, now), now)
                   IN  /\ proc' = "running"
                       /\ heap' = << ld.value >>
                       /\ appData' = 1
                       /\ popup_handle' = 0
                       /\ popupWindows' = {}
                       /\ scheduled_popup_id' = s.scheduled_popup_id
                       /\ afterQueue' = s.afterQueue
                       /\ nextId' = s.nextId
                       /\ prompt' = FALSE
                       /\ timer' = NoTimer
                       /\ logWin' = NoLogWin
                       /\ editors' = <<>>

\* The process is ended from outside (logout, kill): the program has no exit
\* of its own
Exit ==
    /\ proc = "running"
    /\ ProcessGone
    /\ UNCHANGED << now, launches, dataFile, mdFile >>

\* Time passes, to the next pending callback's due time: Tk runs a callback
\* that is due before anything else. The user's actions take no time.
Pending == afterQueue
NextDue == CHOOSE d \in {c.due : c \in Pending} : \A c \in Pending : d <= c.due

AdvanceClock ==
    /\ \A c \in Pending : c.due > now
    /\ Pending # {}
    /\ now' = NextDue
    /\ UNCHANGED << proc, launches, dataFile, mdFile, heap, appData, schedVars,
                    winVars >>


-----------------------------------------------------------------------------
(* The reminder popup *)

Due(cb) == {c \in afterQueue : c.cb = cb /\ c.due <= now}

\* A popup handle that never reports its window
winfo_exists_never(w) == FALSE

\* popup_handle.winfo_exists()
winfo_exists(w) == w \in popupWindows

\* Whether App.show_popup finds the snooze still in force at time t: an
\* exception in the try block is swallowed and the popup goes ahead
SnoozeInForce(doc, t) ==
    LET not_before == doc.next_popup_not_before
        dt == parse_utc_iso(not_before)
    IN  ~not_before.none /\ ~UtcNowRaises /\ dt.aware /\ t < dt.t

\* The scheduled callback fires: App.show_popup
ShowPopup ==
    /\ proc = "running"
    /\ \E c \in Due("show_popup") :
         LET queue == afterQueue \ {c}
             doc == heap[appData]
             ld == load_data(dataFile, mdFile)
             w == nextId + 1
         IN  IF SnoozeInForce(doc, now)
             THEN LET dt == parse_utc_iso(doc.next_popup_not_before)
                      s == schedule_popup_in_seconds(
                               [Sched EXCEPT !.afterQueue = queue],
                               Max(0, SecondsUntil(dt, now).value), now)
                  IN  /\ scheduled_popup_id' = s.scheduled_popup_id
                      /\ afterQueue' = s.afterQueue
                      /\ nextId' = s.nextId
                      /\ UNCHANGED << heap, appData, popup_handle, popupWindows,
                                      fileVars >>
             ELSE IF popup_handle # 0 /\ winfo_exists(popup_handle)
             THEN /\ afterQueue' = queue
                  /\ UNCHANGED << heap, appData, popup_handle, popupWindows,
                                  scheduled_popup_id, nextId, fileVars >>
             ELSE IF ld.raised
             THEN /\ afterQueue' = queue
                  /\ dataFile' = ld.dataFile
                  /\ mdFile' = ld.mdFile
                  /\ UNCHANGED << heap, appData, popup_handle, popupWindows,
                                  scheduled_popup_id, nextId >>
             ELSE /\ afterQueue' = queue
                  /\ dataFile' = ld.dataFile
                  /\ mdFile' = ld.mdFile
                  /\ heap' = Append(heap, ld.value)
                  /\ appData' = Len(heap) + 1
                  /\ popupWindows' = popupWindows \cup {w}
                  /\ popup_handle' = w
                  /\ nextId' = w
                  /\ UNCHANGED scheduled_popup_id
    /\ UNCHANGED << now, proc, launches, winVars >>

\* The effect of a call of snooze_30m made by a callback, on App.data, the
\* data file and the scheduler
Snoozed(r, h) ==
    /\ heap' = [h EXCEPT ![appData] = r.doc]
    /\ dataFile' = IF r.saved THEN save_data(r.doc) ELSE dataFile
    /\ scheduled_popup_id' = r.sched.scheduled_popup_id
    /\ afterQueue' = r.sched.afterQueue
    /\ nextId' = r.sched.nextId

\* ReminderPopup.close (the Close button and the window's close box)
PopupClose ==
    /\ proc = "running"
    /\ \E w \in popupWindows :
         LET r == snooze_30m(heap[appData], Sched, now)
         IN  /\ popupWindows' = popupWindows \ {w}
             /\ Snoozed(r, heap)
    /\ UNCHANGED << now, proc, launches, mdFile, appData, popup_handle, winVars >>

\* ReminderPopup.start up to ask_minutes' wait_window: the popup is gone and
\* the duration dialog is open, the event loop running under it
PopupStart ==
    /\ proc = "running"
    /\ \E w \in popupWindows : popupWindows' = popupWindows \ {w}
    /\ prompt' = TRUE
    /\ UNCHANGED << now, proc, launches, fileVars, heap, appData, popup_handle,
                    scheduled_popup_id, afterQueue, nextId, timer, logWin, editors >>


-----------------------------------------------------------------------------
(* The duration prompt and the countdown *)

\* What the user may type into the Minutes field
MinuteInputs == { <<"1">>, <<"0">>, <<"6", "0", "1">>, <<"x">>, <<>> }

ValidMinutes(text) ==
    LET m == ParseInt(text)
    IN  m.ok /\ m.value >= MinMinutes /\ m.value <= MaxMinutes

\* ask_minutes' ok() with an accepted value, then the rest of start_read_flow:
\* TimerWindow.__init__, whose first tick() runs at once
\* ok() with a rejected value shows the error and leaves the dialog open
PromptOk(text) ==
    /\ proc = "running"
    /\ prompt
    /\ IF ValidMinutes(text)
       THEN LET total == Max(1, ParseInt(text).value * 60)
                id == nextId + 1
            IN  /\ prompt' = FALSE
                /\ timer' = [exists |-> TRUE, running |-> TRUE,
                             total_seconds |-> total, remaining |-> total - 1,
                             visible |-> TRUE, toast |-> FALSE]
                /\ afterQueue' = afterQueue \cup {AfterCall(id, now + 1, "tick")}
                /\ nextId' = id
       ELSE UNCHANGED << prompt, timer, afterQueue, nextId >>
    /\ UNCHANGED << now, proc, launches, fileVars, heap, appData, popup_handle,
                    popupWindows, scheduled_popup_id, logWin, editors >>

\* ask_minutes' cancel() (the Cancel button and the dialog's close box), then
\* start_read_flow's snooze
PromptCancel ==
    /\ proc = "running"
    /\ prompt
    /\ LET r == snooze_30m(heap[appData], Sched, now)
       IN  /\ prompt' = FALSE
           /\ Snoozed(r, heap)
    /\ UNCHANGED << now, proc, launches, mdFile, appData, popup_handle,
                    popupWindows, timer, logWin, editors >>

\* ReadingListEditor.__init__ on the Document object d: refresh() fills the
\* list and clears the form
NewEditor(d, h) ==
    [data |-> d, new_item_mode |-> FALSE, rows |-> Len(h[d].active), sel |-> 0,
     title_var |-> <<>>, page_var |-> <<>>, kind_var |-> "book"]

Titles(doc) == [i \in 1..Len(doc.active) |-> doc.active[i].title]

\* A pending TimerWindow.tick fires. On a stopped timer it does nothing; at
\* zero it closes the window and runs on_done, which is App.show_log_form.
TimerTick ==
    /\ proc = "running"
    /\ \E c \in Due("tick") :
         LET queue == afterQueue \ {c}
             ld == load_data(dataFile, mdFile)
             d == Len(heap) + 1
             h == Append(heap, ld.value)
             r == snooze_30m(ld.value, [Sched EXCEPT !.afterQueue = queue], now)
         IN  IF ~timer.running
             THEN /\ afterQueue' = queue
                  /\ UNCHANGED << timer, heap, appData, fileVars, logWin,
                                  editors, scheduled_popup_id, nextId >>
             ELSE IF timer.remaining > 0
             THEN /\ timer' = [timer EXCEPT !.remaining = @ - 1]
                  /\ afterQueue' =
                        queue \cup {AfterCall(nextId + 1, now + 1, "tick")}
                  /\ nextId' = nextId + 1
                  /\ UNCHANGED << heap, appData, fileVars, logWin, editors,
                                  scheduled_popup_id >>
             ELSE IF ld.raised
             THEN /\ timer' = [timer EXCEPT !.running = FALSE, !.exists = FALSE,
                                            !.visible = FALSE]
                  /\ afterQueue' = queue
                  /\ dataFile' = ld.dataFile
                  /\ mdFile' = ld.mdFile
                  /\ UNCHANGED << heap, appData, logWin, editors,
                                  scheduled_popup_id, nextId >>
             ELSE IF ld.value.active = <<>>
             THEN \* the list is empty: the editor is opened, then the snooze
                  /\ Len(editors) < MaxEditors
                  /\ timer' = [timer EXCEPT !.running = FALSE, !.exists = FALSE,
                                            !.visible = FALSE]
                  /\ mdFile' = ld.mdFile
                  /\ appData' = d
                  /\ editors' = Append(editors, NewEditor(d, h))
                  /\ heap' = [h EXCEPT ![d] = r.doc]
                  /\ dataFile' = IF r.saved THEN save_data(r.doc) ELSE ld.dataFile
                  /\ scheduled_popup_id' = r.sched.scheduled_popup_id
                  /\ afterQueue' = r.sched.afterQueue
                  /\ nextId' = r.sched.nextId
                  /\ UNCHANGED logWin
             ELSE /\ timer' = [timer EXCEPT !.running = FALSE, !.exists = FALSE,
                                            !.visible = FALSE]
                  /\ afterQueue' = queue
                  /\ dataFile' = ld.dataFile
                  /\ mdFile' = ld.mdFile
                  /\ heap' = h
                  /\ appData' = d
                  /\ logWin' = [open |-> TRUE, data |-> d,
                                titles |-> Titles(ld.value),
                                choice_var |-> Titles(ld.value)[1],
                                page_var |-> <<>>]
                  /\ UNCHANGED << editors, scheduled_popup_id, nextId >>
    /\ UNCHANGED << now, proc, launches, popup_handle, popupWindows, prompt >>

\* A Stop that closes the window and leaves the countdown running
TimerStopWindowOnly ==
    /\ proc = "running"
    /\ timer.exists /\ timer.visible
    /\ timer' = [timer EXCEPT !.exists = FALSE, !.visible = FALSE]
    /\ UNCHANGED << now, proc, launches, fileVars, heap, appData, schedVars,
                    prompt, logWin, editors >>

\* TimerWindow.stop
TimerStop ==
    /\ proc = "running"
    /\ timer.exists /\ timer.visible
    /\ timer' = [timer EXCEPT !.running = FALSE, !.exists = FALSE,
                              !.visible = FALSE]
    /\ UNCHANGED << now, proc, launches, fileVars, heap, appData, schedVars,
                    prompt, logWin, editors >>

\* A Hide that also halts the countdown
TimerHidePauses ==
    /\ proc = "running"
    /\ timer.exists /\ timer.visible
    /\ timer' = [timer EXCEPT !.visible = FALSE, !.toast = TRUE,
                              !.running = FALSE]
    /\ UNCHANGED << now, proc, launches, fileVars, heap, appData, schedVars,
                    prompt, logWin, editors >>

\* TimerWindow.hide (the Hide button and the window's close box): the window
\* is withdrawn and a restore window is created
TimerHide ==
    /\ proc = "running"
    /\ timer.exists /\ timer.visible
    /\ timer' = [timer EXCEPT !.visible = FALSE, !.toast = TRUE]
    /\ UNCHANGED << now, proc, launches, fileVars, heap, appData, schedVars,
                    prompt, logWin, editors >>

\* The restore window's Show button: the restore window is destroyed, then the
\* timer window is shown again, which fails when that window no longer exists
ToastShow ==
    /\ proc = "running"
    /\ timer.toast
    /\ timer' = [timer EXCEPT !.toast = FALSE, !.visible = timer.exists]
    /\ UNCHANGED << now, proc, launches, fileVars, heap, appData, schedVars,
                    prompt, logWin, editors >>


-----------------------------------------------------------------------------
(* The log form *)

\* What the user does to a form field before pressing a button: leaves it as
\* it is, or enters a value. A field's text is read by the button's callback
\* only.
Untouched == <<"(untouched)">>
Entered(field, input) == IF input = Untouched THEN field ELSE input

\* What the user may type into the form's last-page field
PageInputs == { <<" ", "7">>, <<"-", "1">> }

\* The last position of active whose title is the given one, or 0
LastMatch(active, title) ==
    IF \E i \in 1..Len(active) : active[i].title = title
    THEN CHOOSE i \in 1..Len(active) :
            /\ active[i].title = title
            /\ \A j \in (i + 1)..Len(active) : active[j].title # title
    ELSE 0

\* The first position of active whose title is the given one, or 0
FirstMatch(active, title) ==
    IF \E i \in 1..Len(active) : active[i].title = title
    THEN CHOOSE i \in 1..Len(active) :
            /\ active[i].title = title
            /\ \A j \in 1..(i - 1) : active[j].title # title
    ELSE 0

\* show_log_form's on_submit, up to save_data: the Document after the update
LogUpdate(doc, title, page) ==
    LET i == FirstMatch(doc.active, title)
    IN  IF i # 0
        THEN [doc EXCEPT !.active[i].last_page = page]
        ELSE [doc EXCEPT !.active = Append(@, Item(title, page, "book"))]

\* LogWindow.submit's checks: the chosen title is not empty and the last page
\* is an integer that is not negative
LogAccepts(win) ==
    /\ Strip(win.choice_var) # <<>>
    /\ ParseInt(win.page_var).ok
    /\ ParseInt(win.page_var).value >= 0

\* LogWindow.submit, pressed after the user has picked row `pick` of the
\* form's read-only title list (0: the choice is left as it is) and has left
\* the last-page field with the given input. An accepted entry runs
\* on_submit: the update is saved, the editor is opened and snooze_30m is
\* called; the form is destroyed only if on_submit returns.
LogSubmit(pick, input) ==
    /\ proc = "running"
    /\ logWin.open
    /\ pick \in 0..Min(MaxRow, Len(logWin.titles))
    /\ LET win == [logWin EXCEPT
                      !.choice_var = IF pick = 0 THEN @ ELSE logWin.titles[pick],
                      !.page_var = Entered(@, input)]
           title == Strip(win.choice_var)
           page == ParseInt(win.page_var).value
           doc == LogUpdate(heap[appData], title, page)
           h == [heap EXCEPT ![appData] = doc]
           r == snooze_30m(doc, Sched, now)
       IN  IF ~LogAccepts(win)
           THEN /\ logWin' = win
                /\ UNCHANGED << heap, dataFile, schedVars, editors >>
           ELSE /\ Len(editors) < MaxEditors
                /\ Len(doc.active) <= MaxActive
                /\ editors' = Append(editors, NewEditor(appData, h))
                /\ heap' = [h EXCEPT ![appData] = r.doc]
                /\ dataFile' = save_data(r.doc)
                /\ scheduled_popup_id' = r.sched.scheduled_popup_id
                /\ afterQueue' = r.sched.afterQueue
                /\ nextId' = r.sched.nextId
                /\ logWin' = IF r.raised THEN win ELSE NoLogWin
                /\ UNCHANGED << popup_handle, popupWindows >>
    /\ UNCHANGED << now, proc, launches, mdFile, appData, prompt, timer >>

\* The form's Cancel button and close box
LogCancel ==
    /\ proc = "running"
    /\ logWin.open
    /\ logWin' = NoLogWin
    /\ UNCHANGED << now, proc, launches, fileVars, heap, appData, schedVars,
                    prompt, timer, editors >>

-----------------------------------------------------------------------------
(* The list editor. An editor window e works on the Document object it was
   given, editors[e].data; rows is the number of rows its list shows and sel
   the selected row (0: none). *)

Untitled == <<"Untitled">>

\* ReadingListEditor.refresh on Document doc: the list is refilled, which
\* drops the selection, and the form is cleared
refresh(ed, doc) ==
    [ed EXCEPT !.rows = Len(doc.active), !.sel = 0, !.title_var = <<>>,
               !.page_var = <<>>, !.kind_var = "book"]

EditorDoc(e) == heap[editors[e].data]

EditorFrame ==
    UNCHANGED << now, proc, launches, appData, schedVars, prompt, timer, logWin >>

\* The user clicks row i: the row is selected and on_select fills the form
\* from the item at that position, if the Document still has one
EditorSelect(e, i) ==
    /\ proc = "running"
    /\ e \in 1..Len(editors)
    /\ i \in 1..Min(MaxRow, editors[e].rows)
    /\ LET doc == EditorDoc(e)
       IN  editors' =
             [editors EXCEPT ![e] =
                 IF i <= Len(doc.active)
                 THEN [@ EXCEPT !.sel = i, !.new_item_mode = FALSE,
                                !.title_var = doc.active[i].title,
                                !.page_var = IntToText(doc.active[i].last_page),
                                !.kind_var = doc.active[i].kind]
                 ELSE [@ EXCEPT !.sel = i, !.new_item_mode = FALSE]]
    /\ EditorFrame
    /\ UNCHANGED << fileVars, heap >>

\* ReadingListEditor.add_new
EditorAddNew(e) ==
    /\ proc = "running"
    /\ e \in 1..Len(editors)
    /\ editors' = [editors EXCEPT ![e] =
                      [@ EXCEPT !.new_item_mode = TRUE, !.sel = 0,
                                !.title_var = <<>>, !.kind_var = "book",
                                !.page_var = <<"0">>]]
    /\ EditorFrame
    /\ UNCHANGED << fileVars, heap >>

\* An assignment that moves the entry to the end of the list
SetItemAtEnd(active, idx, entry) == Append(RemoveAt(active, idx), entry)

\* self.data["active"][idx] = entry
SetItem(active, idx, entry) == [active EXCEPT ![idx] = entry]

\* A reading of the last-page field that always yields 0
FormPageZero(ed) == [ok |-> TRUE, value |-> 0]

\* The entry save_selected builds from the form
FormTitle(ed) == IF Strip(ed.title_var) = <<>> THEN Untitled ELSE Strip(ed.title_var)
FormPage(ed) ==
    ParseInt(IF Strip(ed.page_var) = <<>> THEN <<"0">> ELSE Strip(ed.page_var))
FormKind(ed) == IF ed.kind_var = "" THEN "book" ELSE ed.kind_var

\* A check of the last page that lets any integer through
FormAcceptsAnyInteger(ed) == FormPage(ed).ok

\* save_selected's check of the last page
FormAccepts(ed) == FormPage(ed).ok /\ FormPage(ed).value >= 0

\* The ways the user fills the form in the model: not at all, a whole entry,
\* or a negative last page
KindUntouched == "(untouched)"
EnteredKind(field, input) == IF input = KindUntouched THEN field ELSE input

FormInput(title, page, kind) == [title |-> title, page |-> page, kind |-> kind]

FormInputs ==
    { FormInput(Untouched, Untouched, KindUntouched),
      FormInput(<<" ", "C", " ">>, <<" ", "7">>, "paper"),
      FormInput(Untouched, <<"-", "1">>, KindUntouched) }

Filled(ed, input) ==
    [ed EXCEPT !.title_var = Entered(@, input.title),
               !.page_var = Entered(@, input.page),
               !.kind_var = EnteredKind(@, input.kind)]

\* ReadingListEditor.save_selected: the Save changes button, pressed with the
\* form as the user has left it
EditorSave(e, input) ==
    /\ proc = "running"
    /\ e \in 1..Len(editors)
    /\ LET ed == Filled(editors[e], input)
           doc == EditorDoc(e)
           idx == ed.sel
           entry == Item(FormTitle(ed), FormPage(ed).value, FormKind(ed))
           added == [doc EXCEPT !.active = Append(@, entry)]
           replaced == [doc EXCEPT !.active = SetItem(@, idx, entry)]
       IN  IF ~FormAccepts(ed)
           THEN /\ editors' = [editors EXCEPT ![e] = ed]
                /\ UNCHANGED << heap, dataFile >>
           ELSE IF ed.new_item_mode \/ idx = 0
           THEN /\ Len(doc.active) < MaxActive
                /\ heap' = [heap EXCEPT ![ed.data] = added]
                /\ dataFile' = save_data(added)
                /\ editors' = [editors EXCEPT ![e] =
                                  [refresh(ed, added) EXCEPT
                                      !.new_item_mode = FALSE,
                                      !.sel = Len(added.active)]]
           ELSE IF idx > Len(doc.active)
           THEN /\ editors' = [editors EXCEPT ![e] = ed]
                /\ UNCHANGED << heap, dataFile >>
           ELSE /\ heap' = [heap EXCEPT ![ed.data] = replaced]
                /\ dataFile' = save_data(replaced)
                /\ editors' = [editors EXCEPT ![e] =
                                  [refresh(ed, replaced) EXCEPT !.sel = idx]]
    /\ EditorFrame
    /\ UNCHANGED mdFile

\* ReadingListEditor.remove_selected
EditorRemove(e) ==
    /\ proc = "running"
    /\ e \in 1..Len(editors)
    /\ LET ed == editors[e]
           doc == EditorDoc(e)
           idx == ed.sel
           removed == [doc EXCEPT !.active = RemoveAt(@, idx)]
       IN  IF idx = 0 \/ idx > Len(doc.active)
           THEN UNCHANGED << heap, dataFile, editors >>
           ELSE /\ heap' = [heap EXCEPT ![ed.data] = removed]
                /\ dataFile' = save_data(removed)
                /\ editors' = [editors EXCEPT ![e] = refresh(ed, removed)]
    /\ EditorFrame
    /\ UNCHANGED mdFile

\* ReadingListEditor.mark_completed
EditorMarkCompleted(e) ==
    /\ proc = "running"
    /\ e \in 1..Len(editors)
    /\ LET ed == editors[e]
           doc == EditorDoc(e)
           idx == ed.sel
           item == doc.active[idx]
           removed == [doc EXCEPT !.active = RemoveAt(@, idx)]
       IN  IF idx = 0 \/ idx > Len(doc.active)
           THEN UNCHANGED << heap, fileVars, editors >>
           ELSE /\ Len(mdFile.lines) < Len(MdHeader) + MaxCompleted
                /\ mdFile' = append_completed_md(mdFile, item.title,
                                                 item.last_page, item.kind, now)
                /\ heap' = [heap EXCEPT ![ed.data] = removed]
                /\ dataFile' = save_data(removed)
                /\ editors' = [editors EXCEPT ![e] = refresh(ed, removed)]
    /\ EditorFrame

\* The user closes an editor window
EditorClose(e) ==
    /\ proc = "running"
    /\ e \in 1..Len(editors)
    /\ editors' = RemoveAt(editors, e)
    /\ EditorFrame
    /\ UNCHANGED << fileVars, heap >>

-----------------------------------------------------------------------------
(* The program *)

Flags == SUBSET {"--popup-now", "--reset"}

Next ==
    \/ \E flags \in Flags : Launch(flags)
    \/ Exit
    \/ AdvanceClock
    \/ ShowPopup
    \/ PopupClose
    \/ PopupStart
    \/ \E text \in MinuteInputs : PromptOk(text)
    \/ PromptCancel
    \/ TimerTick
    \/ TimerStop
    \/ TimerHide
    \/ ToastShow
    \/ \E pick \in 0..MaxRow, input \in PageInputs \cup {Untouched} :
         LogSubmit(pick, input)
    \/ LogCancel
    \/ \E e \in 1..MaxEditors :
         \/ \E i \in 1..MaxRow : EditorSelect(e, i)
         \/ EditorAddNew(e)
         \/ \E input \in FormInputs : EditorSave(e, input)
         \/ EditorRemove(e)
         \/ EditorMarkCompleted(e)
         \/ EditorClose(e)

Spec == Init /\ [][Next]_vars

-----------------------------------------------------------------------------
(* The scheduler under an arbitrary caller: schedule_popup_in_seconds is
   called with any of the delays below at any moment of a running App, the
   armed callback fires when due, and the popup it opens is closed. *)

ArmDelays == {0, 60, SNOOZE_AFTER_CLOSE_MIN * 60}

SchedArm(seconds) ==
    /\ proc = "running"
    /\ nextId < MaxIds
    /\ LET s == schedule_popup_in_seconds(Sched, seconds, now)
       IN  /\ scheduled_popup_id' = s.scheduled_popup_id
           /\ afterQueue' = s.afterQueue
           /\ nextId' = s.nextId
    /\ UNCHANGED << now, proc, launches, fileVars, heap, appData, popup_handle,
                    popupWindows, winVars >>

SchedNext ==
    \/ \E flags \in Flags : Launch(flags)
    \/ \E seconds \in ArmDelays : SchedArm(seconds)
    \/ AdvanceClock
    \/ ShowPopup
    \/ PopupClose

SchedSpec == Init /\ [][SchedNext]_vars

-----------------------------------------------------------------------------
(* The log form and the list editor on their own: the state is the one in
   which a read session of one minute has just run out on a data file that
   held Document d, the log form showing d's titles; from there the user
   works with the log form and the editor only. *)

EditDocs ==
    { Document(<< Item(TitleA, 3, "book"), Item(TitleA, 5, "paper") >>, PyNone),
      Document(<< Item(<<"B">>, 12, "blog") >>, IsoFormatZ(InitNotBefore)) }

SessionSeconds == MinMinutes * 60

EditInit ==
    \E d \in EditDocs :
        /\ now = DELAY_AFTER_LOGIN_MIN * 60 + SessionSeconds
        /\ proc = "running"
        /\ launches = 1
        /\ dataFile = save_data(d)
        /\ mdFile = HeaderMd
        /\ heap = << d, d, d >>
        /\ appData = 3
        /\ popup_handle = 2
        /\ popupWindows = {}
        /\ scheduled_popup_id = 1
        /\ afterQueue = {}
        /\ nextId = 2 + SessionSeconds
        /\ prompt = FALSE
        /\ timer = [NoTimer EXCEPT !.total_seconds = SessionSeconds]
        /\ logWin = [open |-> TRUE, data |-> 3, titles |-> Titles(d),
                     choice_var |-> Titles(d)[1], page_var |-> <<>>]
        /\ editors = <<>>

EditNext ==
    \/ \E pick \in 0..MaxRow, input \in PageInputs \cup {Untouched} :
         LogSubmit(pick, input)
    \/ LogCancel
    \/ \E e \in 1..MaxEditors :
         \/ \E i \in 1..MaxRow : EditorSelect(e, i)
         \/ EditorAddNew(e)
         \/ \E input \in FormInputs : EditorSave(e, input)
         \/ EditorRemove(e)
         \/ EditorMarkCompleted(e)
         \/ EditorClose(e)

EditSpec == EditInit /\ [][EditNext]_vars

-----------------------------------------------------------------------------
(* The storage functions on their own, called in any order by a caller that
   is not the App (main calls them before the App exists). heap holds what
   the caller has in hand: the Document it saved, if any, followed by the
   Document the last load_data returned, if it returned. *)

StoreDocs ==
    EditDocs \cup
    { EmptyDocument,
      SeedDocument,
      Document(<< Item(<<"C">>, MaxPage, "article"), Item(TitleA, 0, "book") >>,
               IsoFormatZ(InitNotBefore)) }

StoreFrame ==
    UNCHANGED << now, proc, launches, appData, schedVars, winVars >>

\* save_data(d), then load_data()
StoreSaveLoad(d) ==
    /\ proc = "off"
    /\ LET ld == load_data(save_data(d), mdFile)
       IN  /\ dataFile' = ld.dataFile
           /\ mdFile' = ld.mdFile
           /\ heap' = IF ld.raised THEN << d >> ELSE << d, ld.value >>
    /\ StoreFrame

\* load_data() on the files as they are
StoreLoad ==
    /\ proc = "off"
    /\ LET ld == load_data(dataFile, mdFile)
       IN  /\ dataFile' = ld.dataFile
           /\ mdFile' = ld.mdFile
           /\ heap' = IF ld.raised THEN <<>> ELSE << ld.value >>
    /\ StoreFrame

\* ensure_storage() on the files as they are
StoreEnsure ==
    /\ proc = "off"
    /\ LET es == ensure_storage(dataFile, mdFile)
       IN  /\ dataFile' = es.dataFile
           /\ mdFile' = es.mdFile
    /\ UNCHANGED heap
    /\ StoreFrame

\* append_completed_md for an item of a Document, on the log that
\* ensure_storage has created
StoreAppend(d, i) ==
    /\ proc = "off"
    /\ mdFile.exists
    /\ i \in 1..Len(d.active)
    /\ Len(mdFile.lines) < Len(MdHeader) + MaxCompleted
    /\ mdFile' = append_completed_md(mdFile, d.active[i].title,
                                     d.active[i].last_page, d.active[i].kind, now)
    /\ UNCHANGED << dataFile, heap >>
    /\ StoreFrame

\* The data file is damaged from outside
StoreCorrupt ==
    /\ proc = "off"
    /\ dataFile.exists
    /\ dataFile' = FileOf(GarbageText)
    /\ UNCHANGED << mdFile, heap >>
    /\ StoreFrame

StoreNext ==
    \/ \E d \in StoreDocs : StoreSaveLoad(d)
    \/ StoreLoad
    \/ StoreEnsure
    \/ \E d \in StoreDocs, i \in 1..MaxRow : StoreAppend(d, i)
    \/ StoreCorrupt

StoreSpec == Init /\ [][StoreNext]_vars

-----------------------------------------------------------------------------
(* Properties *)

\* The Document the data file holds
Persisted == JsonLoads(dataFile.text)

ShowPending == {c \in afterQueue : c.cb = "show_popup"}

SnoozeSeconds == SNOOZE_AFTER_CLOSE_MIN * 60

\* A snooze taken at this instant is in place: the file holds now + 30 minutes
\* and a show_popup callback is pending for that moment
SnoozeArmedNow ==
    /\ ~Persisted.next_popup_not_before.none
    /\ Persisted.next_popup_not_before.iso = now + SnoozeSeconds
    /\ \E c \in ShowPending : c.due = now + SnoozeSeconds

\* C1: whenever the user closes the reminder popup, the data file then holds
\* a next_popup_not_before at least 30 minutes after the close instant, and no
\* pending show_popup callback is due before that timestamp.
C1_CloseSnoozes ==
    [][PopupClose =>
         LET not_before == Persisted'.next_popup_not_before
         IN  /\ ~not_before.none
             /\ not_before.iso >= now + SnoozeSeconds
             /\ \A c \in ShowPending' : c.due >= not_before.iso]_vars

\* C2: a read session that is completed (the countdown has run out and the
\* log form's entry is accepted) ends with the 30-minute snooze saved and the
\* scheduler armed for 30 minutes.
C2_SessionEndsSnoozed ==
    [][(/\ \E pick \in 0..MaxRow, input \in PageInputs \cup {Untouched} :
             LogSubmit(pick, input)
        /\ Len(editors') > Len(editors))
       => SnoozeArmedNow']_vars

\* C3: a start without --popup-now whose data file holds a
\* next_popup_not_before in the future arms the scheduler for the time left
\* until it; with none, or one that is not in the future, it arms the
\* default 20 minutes.
C3_FirstArm ==
    [][\A flags \in Flags :
         (Launch(flags) /\ "--popup-now" \notin flags /\ proc' = "running")
         => LET not_before == Persisted'.next_popup_not_before
                delay == IF ~not_before.none /\ not_before.iso > now
                         THEN not_before.iso - now
                         ELSE DELAY_AFTER_LOGIN_MIN * 60
            IN  \E c \in ShowPending' : c.due = now + delay]_vars

\* C4: the reminder popup is never opened at an instant earlier than the
\* App's current next_popup_not_before.
C4_NoPopupBeforeNotBefore ==
    [][(ShowPopup /\ popupWindows' # popupWindows)
       => LET not_before == heap[appData].next_popup_not_before
          IN  not_before.none \/ now >= not_before.iso]_vars

\* C7: cancelling the duration prompt sets next_popup_not_before to now + 30
\* minutes in the file, arms the scheduler for 30 minutes and starts no
\* countdown.
C7_CancelSnoozes ==
    [][PromptCancel => (SnoozeArmedNow' /\ ~timer'.exists)]_vars

\* C5: at most one show_popup callback is pending at any time, and it is the
\* one armed last: an arm, whatever its delay, leaves no earlier callback
\* behind.
C5_OnePendingCallback ==
    /\ Cardinality(ShowPending) <= 1
    /\ \A c \in ShowPending : c.id = scheduled_popup_id

\* An arm with delay 0 has replaced a callback that was still pending
C5_Rearmed ==
    /\ now < DELAY_AFTER_LOGIN_MIN * 60
    /\ scheduled_popup_id > 1
    /\ \E c \in ShowPending : c.id = scheduled_popup_id /\ c.due = now

\* C6: at most one reminder popup window exists at any time; a show_popup
\* callback that fires while a popup is open opens no window and leaves
\* nothing new in the queue.
C6_OnePopup ==
    /\ [](Cardinality(popupWindows) <= 1)
    /\ [][(ShowPopup /\ popupWindows # {})
          => (popupWindows' = popupWindows /\ afterQueue' \subseteq afterQueue
              /\ afterQueue' # afterQueue)]_vars

\* The callback armed after the open popup was created has fired and is gone
C6_Discarded ==
    /\ popup_handle \in popupWindows
    /\ scheduled_popup_id > popup_handle
    /\ ShowPending = {}

\* C8: while the program runs, the Document in the data file equals the
\* App's in-memory Document, whatever mutating actions have run and whatever
\* windows are open.
C8_DiskEqualsMemory ==
    proc = "running" =>
        /\ dataFile.exists
        /\ dataFile.text.format = "json"
        /\ Persisted = heap[appData]

\* An item has been marked completed and the editor and the log form are
\* still open
C8_AfterMutations ==
    /\ proc = "running"
    /\ editors # <<>>
    /\ logWin.open
    /\ Len(mdFile.lines) > Len(MdHeader)
    /\ Persisted = heap[appData]
    /\ Persisted # JsonLoads(JsonDumps(SeedDocument))

\* C9: marking the selected row i completed removes the item at position i
\* from active and nothing else, in memory and in the file, and appends one
\* line to the completed log, built from that item's title, kind and
\* last_page, after the lines that were there.
C9_MarkCompleted ==
    [][\A e \in 1..MaxEditors :
         (/\ EditorMarkCompleted(e)
          /\ editors[e].sel \in 1..Len(heap[editors[e].data].active))
         => LET i == editors[e].sel
                old == heap[editors[e].data].active
                new == heap'[editors[e].data].active
                item == old[i]
                lines == mdFile.lines
            IN  /\ Len(new) = Len(old) - 1
                /\ \A j \in 1..(i - 1) : new[j] = old[j]
                /\ \A j \in i..Len(new) : new[j] = old[j + 1]
                /\ Persisted'.active = new
                /\ Len(mdFile'.lines) = Len(lines) + 1
                /\ SubSeq(mdFile'.lines, 1, Len(lines)) = lines
                /\ mdFile'.lines[Len(lines) + 1] =
                      CompletedLine(item.title, item.last_page, item.kind, now)
       ]_vars

\* The second of the three seed items, logged at page 7, has been marked
\* completed
C9_MiddleCompleted ==
    /\ proc = "running"
    /\ Len(mdFile.lines) = Len(MdHeader) + 1
    /\ mdFile.lines[Len(MdHeader) + 1] =
          CompletedLine(SeedDocument.active[2].title, 7, "blog", now)
    /\ heap[appData].active =
          << SeedDocument.active[1], SeedDocument.active[3] >>

\* The text of a negative page number
NegativePages == {IntToText(0 - p) : p \in 1..MaxNegative}

PageOf(text) == ParseInt(Strip(text))

\* C10: a negative last page is rejected by the editor's Save changes, when
\* adding and when replacing, and by the log form's Submit: the Document in
\* memory and the data file stay as they were.
C10_NegativeRejected ==
    /\ \A text \in NegativePages :
         /\ ~FormAccepts([page_var |-> text])
         /\ ~LogAccepts([choice_var |-> TitleA, page_var |-> text])
    /\ [][(heap' # heap \/ fileVars' # fileVars \/ Len(editors') # Len(editors))
          => /\ \A e \in 1..Len(editors), input \in FormInputs :
                  LET page == PageOf(Filled(editors[e], input).page_var)
                  IN  ~(page.ok /\ page.value < 0 /\ EditorSave(e, input))
             /\ \A pick \in 0..MaxRow, input \in PageInputs \cup {Untouched} :
                  LET page == PageOf(Entered(logWin.page_var, input))
                  IN  ~(/\ logWin.open /\ page.ok /\ page.value < 0
                        /\ LogSubmit(pick, input))
         ]_vars

\* A negative page has been turned down by the log form and by an editor
\* that was adding an item: both still show it
C10_Rejected ==
    /\ logWin.open
    /\ PageOf(logWin.page_var).ok /\ PageOf(logWin.page_var).value < 0
    /\ \E e \in 1..Len(editors) :
          /\ editors[e].new_item_mode
          /\ PageOf(editors[e].page_var).ok
          /\ PageOf(editors[e].page_var).value < 0

\* The text of a page number that is not negative
PageTexts == {IntToText(p) : p \in 0..MaxPage}

\* The row the log form's entry lands on: the first match, or a new last row
LogTarget(active, title) ==
    IF FirstMatch(active, title) # 0 THEN FirstMatch(active, title)
    ELSE Len(active) + 1

\* What every accepted Save changes of editor e leaves behind: the editor's
\* list refreshed and its form cleared, the other windows and the log as
\* they were. It stands before the action in the formulas below so that a
\* step that is no such Save is told apart at once.
SaveFootprint(e) ==
    /\ Len(editors') = Len(editors)
    /\ editors'[e].page_var = <<>>
    /\ logWin' = logWin
    /\ mdFile' = mdFile

\* What every accepted Submit of the log form leaves behind: one more editor
SubmitFootprint == Len(editors') = Len(editors) + 1

\* C11: a last page p >= 0 is accepted by the editor's Save changes, when
\* adding and when replacing, and by the log form's Submit, and the item it
\* was entered for then has last_page = p in the data file.
C11_PagePersisted ==
    /\ \A text \in PageTexts :
         /\ FormAccepts([page_var |-> text])
         /\ LogAccepts([choice_var |-> TitleA, page_var |-> text])
         /\ IntToText(PageOf(text).value) = text
    /\ [][LET saved == Persisted'.active
          IN  /\ \A e \in 1..Len(editors), input \in FormInputs :
                   LET ed == Filled(editors[e], input)
                       page == PageOf(ed.page_var)
                       row == IF ed.new_item_mode \/ ed.sel = 0
                              THEN Len(EditorDoc(e).active) + 1 ELSE ed.sel
                   IN  (/\ SaveFootprint(e)
                        /\ page.ok /\ page.value >= 0
                        /\ EditorSave(e, input))
                       => /\ Len(saved) >= row
                          /\ saved[row].last_page = page.value
              /\ \A pick \in 0..MaxRow, input \in PageInputs \cup {Untouched} :
                   LET page == PageOf(Entered(logWin.page_var, input))
                       title == Strip(IF pick = 0 THEN logWin.choice_var
                                      ELSE logWin.titles[pick])
                       row == LogTarget(heap[appData].active, title)
                   IN  (/\ SubmitFootprint
                        /\ logWin.open /\ pick <= Len(logWin.titles)
                        /\ page.ok /\ page.value >= 0
                        /\ LogSubmit(pick, input))
                       => /\ Len(saved) >= row
                          /\ saved[row].last_page = page.value
                          /\ saved[row].title = title
         ]_vars

\* Page 7 has been logged for the first of two items of the same title and
\* an item with page 7 has been added in the editor
C11_PagesSaved ==
    /\ proc = "running"
    /\ Persisted.active = << Item(TitleA, 7, "book"), Item(TitleA, 5, "paper"),
                             Item(<<"C">>, 7, "paper") >>

\* C12: for every valid Document d, save_data(d) followed by load_data()
\* returns a Document equal to d: the same items in the same order and the
\* same next_popup_not_before.
C12_SaveLoadRoundTrip ==
    [][\A d \in StoreDocs : StoreSaveLoad(d) => heap' = << d, d >>]_vars

\* A Document of two items with a snooze timestamp has been saved and loaded
C12_RoundTripped ==
    /\ proc = "off"
    /\ Len(heap) = 2
    /\ Len(heap[1].active) = 2
    /\ heap[1].active[1].last_page = MaxPage
    /\ ~heap[1].next_popup_not_before.none
    /\ heap[2] = heap[1]
    /\ dataFile = save_data(heap[1])

\* C13: load_data on a data file that does not parse returns the empty
\* default Document and leaves the data file holding that default.
C13_CorruptLoadResets ==
    [][(StoreLoad /\ dataFile.exists /\ dataFile.text.format # "json")
       => (heap' = << EmptyDocument >> /\ dataFile' = save_data(EmptyDocument))
      ]_vars

\* C14: ensure_storage turns a fresh install into a data file holding the
\* three seed items with next_popup_not_before null, which load_data then
\* returns, and a completed log holding the fixed header; a file that exists
\* is left as it is, and a second call changes nothing.
C14_EnsureStorageIdempotent ==
    LET es == ensure_storage(dataFile, mdFile)
        again == ensure_storage(es.dataFile, es.mdFile)
        ld == load_data(es.dataFile, es.mdFile)
    IN  /\ again = es
        /\ dataFile.exists => es.dataFile = dataFile
        /\ mdFile.exists => es.mdFile = mdFile
        /\ ~dataFile.exists =>
              /\ es.dataFile.exists
              /\ ~ld.raised
              /\ Len(ld.value.active) = 3
              /\ ld.value = SeedDocument
              /\ ld.value.next_popup_not_before = PyNone
              /\ ld.dataFile = es.dataFile
        /\ ~mdFile.exists => (es.mdFile.exists /\ es.mdFile.lines = MdHeader)

\* ensure_storage has run on a fresh install
C14_FreshInstallSetUp ==
    /\ proc = "off"
    /\ heap = <<>>
    /\ dataFile.exists /\ JsonLoads(dataFile.text) = SeedDocument
    /\ mdFile.exists /\ mdFile.lines = MdHeader

\* C15: a start with --reset on a data file that parses (or on no data file)
\* brings the UI up with next_popup_not_before null in the data file, whatever
\* it held before, and with the items of the file as they were.
C15_ResetClearsSnooze ==
    [][\A flags \in Flags :
          (/\ "--reset" \in flags
           /\ ~dataFile.exists \/ dataFile.text.format = "json"
           /\ Launch(flags))
          => /\ proc' = "running"
             /\ dataFile'.exists /\ dataFile'.text.format = "json"
             /\ Persisted'.next_popup_not_before = PyNone
             /\ heap'[appData'].next_popup_not_before = PyNone
             /\ dataFile.exists => Persisted'.active = Persisted.active
      ]_vars

\* A start with --reset has cleared a snooze that was still in the future
C15_FutureSnoozeCleared ==
    /\ proc = "running"
    /\ now < InitNotBefore
    /\ popupWindows = {} /\ popup_handle = 0
    /\ Persisted = Document(<< Item(<<"B">>, 12, "blog") >>, PyNone)

\* C16: Stop changes nothing but the countdown: every Document in memory, the
\* data file, the completed log, the pending callbacks and the other windows
\* are as before; and once the countdown's window is gone no step opens the
\* log form, so a countdown stopped early never leads to it.
C16_StopAbandonsSilently ==
    [][/\ TimerStop =>
            /\ heap' = heap /\ appData' = appData
            /\ dataFile' = dataFile /\ mdFile' = mdFile
            /\ afterQueue' = afterQueue
            /\ scheduled_popup_id' = scheduled_popup_id
            /\ logWin' = logWin /\ editors' = editors
       /\ (~timer.exists /\ ~logWin.open) => ~logWin'.open
      ]_vars

\* A countdown was stopped with time left and its last pending tick has fired
C16_StoppedEarly ==
    /\ proc = "running"
    /\ ~timer.exists /\ ~timer.running
    /\ timer.total_seconds = MinMinutes * 60
    /\ timer.remaining > 0
    /\ now > DELAY_AFTER_LOGIN_MIN * 60
    /\ \A c \in afterQueue : c.cb # "tick"
    /\ ~logWin.open

\* C17: an accepted Submit of the log form with (title, page) sets last_page
\* to page on the first item of active that has exactly that title and leaves
\* every other item, later items of the same title among them, as it was; when
\* no item has the title it appends the item (title, page, book) at the end;
\* the data file then holds the Document so changed.
C17_LogUpdatesFirstMatch ==
    [][\A pick \in 0..MaxRow, input \in PageInputs \cup {Untouched} :
          LET page == PageOf(Entered(logWin.page_var, input))
              title == Strip(IF pick = 0 THEN logWin.choice_var
                             ELSE logWin.titles[pick])
              old == heap[appData]
              new == heap'[appData]
              hits == {i \in 1..Len(old.active) : old.active[i].title = title}
          IN  (/\ SubmitFootprint
               /\ logWin.open /\ pick <= Len(logWin.titles)
               /\ title # <<>> /\ page.ok /\ page.value >= 0
               /\ LogSubmit(pick, input))
              => /\ Persisted' = new
                 /\ new.next_popup_not_before = old.next_popup_not_before
                 /\ IF hits = {}
                    THEN new.active =
                            Append(old.active, Item(title, page.value, "book"))
                    ELSE LET k == CHOOSE i \in hits : \A j \in hits : i <= j
                         IN  /\ Len(new.active) = Len(old.active)
                             /\ new.active[k] =
                                   [old.active[k] EXCEPT !.last_page = page.value]
                             /\ \A j \in 1..Len(old.active) :
                                   j # k => new.active[j] = old.active[j]
      ]_vars

\* The log form, left open with the title B, has been submitted after the
\* only item was renamed in the editor: B is appended as a book
C17_AppendedUnmatched ==
    /\ proc = "running"
    /\ logWin.open
    /\ Persisted.active = << Item(<<"C">>, 7, "paper"), Item(<<"B">>, 7, "book") >>

\* C18: an accepted Save changes with an existing row i selected puts the
\* form's entry at position i and leaves the length of active and every other
\* position as they were, row i staying selected; an accepted Save changes
\* after Add new, or with no row selected, puts the entry after the last item,
\* leaves every existing position as it was and selects the new last row.
C18_SaveInPlaceAddAtEnd ==
    [][\A e \in 1..Len(editors), input \in FormInputs :
          LET ed == Filled(editors[e], input)
              page == PageOf(IF Strip(ed.page_var) = <<>> THEN <<"0">>
                             ELSE ed.page_var)
              old == EditorDoc(e).active
              new == heap'[editors[e].data].active
              i == ed.sel
          IN  (/\ SaveFootprint(e)
               /\ page.ok /\ page.value >= 0
               /\ i <= Len(old)
               /\ EditorSave(e, input))
              => IF ed.new_item_mode \/ i = 0
                 THEN /\ Len(new) = Len(old) + 1
                      /\ \A j \in 1..Len(old) : new[j] = old[j]
                      /\ new[Len(new)].last_page = page.value
                      /\ new[Len(new)].title = FormTitle(ed)
                      /\ editors'[e].sel = Len(new)
                 ELSE /\ Len(new) = Len(old)
                      /\ \A j \in 1..Len(old) : j # i => new[j] = old[j]
                      /\ new[i].last_page = page.value
                      /\ new[i].title = FormTitle(ed)
                      /\ editors'[e].sel = i
      ]_vars

\* The second of two rows has been replaced in the editor and is selected
C18_SecondRowReplaced ==
    /\ proc = "running"
    /\ Len(editors) = 1
    /\ editors[1].sel = 2
    /\ editors[1].page_var = <<>>
    /\ EditorDoc(1).active = << Item(TitleA, 7, "book"), Item(<<"C">>, 7, "paper") >>

\* The pending ticks, and the instant at which a running countdown will show
\* zero: the due time of its pending tick plus the seconds it still has
Ticks(queue) == {c \in queue : c.cb = "tick"}
ZeroAt(queue, t) == (CHOOSE c \in Ticks(queue) : TRUE).due + t.remaining

\* The windows of the log-entry flow: the log form and the editors
LogFlowWindows(win, eds) == (IF win.open THEN 1 ELSE 0) + Len(eds)

\* C19: a countdown started for m minutes has 60*m seconds; while it runs
\* exactly one tick is pending; Hide and Show change neither its seconds nor
\* its pending tick; each tick takes one second off and no step moves the
\* instant at which it will show zero, which is 60*m seconds after its start;
\* the tick that finds zero ends the countdown and opens the log-entry flow
\* (the log form, or the editor when the list is empty), and no other step
\* opens the log form.
C19_HiddenCountdownCompletes ==
    [][/\ timer'.running =>
            /\ Cardinality(Ticks(afterQueue')) = 1
            /\ timer'.exists
            /\ timer'.remaining \in 0..(timer'.total_seconds - 1)
       /\ (timer'.running /\ ~timer.running) =>
            /\ \E m \in MinMinutes..MaxMinutes : timer'.total_seconds = 60 * m
            /\ ZeroAt(afterQueue', timer') = now + timer'.total_seconds
       /\ (timer.running /\ timer'.running) =>
            /\ ZeroAt(afterQueue', timer') = ZeroAt(afterQueue, timer)
            /\ timer'.total_seconds = timer.total_seconds
            /\ LogFlowWindows(logWin', editors') = LogFlowWindows(logWin, editors)
       /\ (TimerHide \/ ToastShow) =>
            /\ timer'.running = timer.running
            /\ timer'.remaining = timer.remaining
            /\ afterQueue' = afterQueue
       /\ (TimerTick /\ timer.running /\ timer.remaining > 0) =>
            /\ timer'.running
            /\ timer'.remaining = timer.remaining - 1
            /\ \A c \in Ticks(afterQueue') : c.due = now + 1
       /\ (TimerTick /\ timer.running /\ timer.remaining = 0) =>
            /\ ~timer'.running /\ ~timer'.exists
            /\ Ticks(afterQueue') = {}
            /\ now = ZeroAt(afterQueue, timer)
            /\ LogFlowWindows(logWin', editors')
                  = LogFlowWindows(logWin, editors) + 1
       /\ (logWin'.open /\ ~logWin.open) =>
            (timer.running /\ timer.remaining = 0 /\ ~timer'.running)
      ]_vars

\* A countdown of one minute, hidden and never shown again, has run out 60
\* seconds after the popup and the log form is open
C19_CompletedWhileHidden ==
    /\ proc = "running"
    /\ timer.toast /\ ~timer.exists /\ ~timer.running
    /\ timer.total_seconds = 60 * MinMinutes /\ timer.remaining = 0
    /\ Ticks(afterQueue) = {}
    /\ now = DELAY_AFTER_LOGIN_MIN * 60 + 60 * MinMinutes
    /\ logWin.open

\* No window of the reminder flow is open: no popup, no duration prompt, no
\* countdown (shown or hidden) and no log form
Idle ==
    /\ proc = "running"
    /\ popupWindows = {}
    /\ ~prompt
    /\ ~timer.exists
    /\ ~logWin.open

\* C20: in every state in which no reminder popup, duration prompt, countdown
\* or log form is open, a show_popup callback is pending.
C20_NeverDeadEnds == Idle => ShowPending # {}

\* The Document objects the program writes to the data file: App.data and the
\* Document of every open editor
Writers(app, eds) == {app} \cup {eds[e].data : e \in 1..Len(eds)}

JustSaved(e) ==
    /\ editors[e].sel \in 1..Len(EditorDoc(e).active)
    /\ ~editors[e].new_item_mode
    /\ editors[e].title_var = <<>>
    /\ editors[e].page_var = <<>>
    /\ editors[e].kind_var = "book"

\* C22: Save changes pressed again right after an accepted Save changes, the
\* form and the selection left as that Save put them, changes neither the
\* Document nor the data file.
C22_SaveIdempotent ==
    [][\A e \in 1..Len(editors) :
          (/\ JustSaved(e)
           /\ EditorSave(e, FormInput(Untouched, Untouched, KindUntouched)))
          => /\ heap'[editors[e].data] = EditorDoc(e)
             /\ dataFile' = dataFile
      ]_vars

=============================================================================
